---- MODULE Spec2Model ----
(***************************************************************************)
(* PPEDetector (src/src/core/detector.py): the identity tracker, the IoU   *)
(* utility, the PPE assigner and the compliance scorer.                    *)
(*                                                                         *)
(* Representation.                                                         *)
(*  - A box is <<x1, y1, x2, y2>> of integers.                             *)
(*  - A detection is a record [class, box, ref]; ref stands for the        *)
(*    identity of the Python dict (two detections with equal class and box *)
(*    are still two objects).  A tracked person carries the field id too.  *)
(*  - tracked_persons is a Python dict; it is modelled as the sequence of  *)
(*    its entries [pid, center, timestamp] in the dict's iteration order   *)
(*    (insertion order; assigning to an existing key keeps its place).     *)
(*  - center holds TWICE the centroid, <<x1+x2, y1+y2>>, so that the       *)
(*    halves of (x1+x2)/2 stay integers; distances are compared squared.   *)
(*  - time.time() is the variable now, in whole seconds.  The reads of the *)
(*    clock inside one call of track_persons return the same instant.      *)
(*  - An IoU is the fraction num/den (den > 0), or the exception raised by *)
(*    the division.                                                        *)
(***************************************************************************)
EXTENDS Integers, Sequences, FiniteSets, TLC

VARIABLES id_counter, tracked_persons, now, last, prev, call

vars == <<id_counter, tracked_persons, now, last, prev, call>>

(* ------------------------------ bounds --------------------------------- *)
\* most person detections in one frame
MaxPersons == 2
\* most equipment detections in one frame
MaxItems == 1
\* the tracker stops accepting frames that could push id_counter beyond this
MaxId == 3
\* the clock stops here
MaxTime == 3
\* box coordinates of the direct calls of calculate_iou range over 0..MaxCoord
MaxCoord == 2
\* most equipment detections in a direct call of assign_ppe_to_persons
MaxCallItems == 2
\* longest list of one person in a direct call of calculate_ppe_scores
MaxList == 3

(* --------------------------- program constants ------------------------- *)
MATCH_DISTANCE == 50
TRACK_TIMEOUT == 2
IOU_THRESHOLD == 0
SCORE_CAP == 100

PPE_WEIGHTS == [c \in {"Hardhat", "Safety Vest", "Mask"} |->
                  IF c = "Mask" THEN 20 ELSE 40]

\* dict.get(key, 0) on PPE_WEIGHTS
WeightOf(c) == IF c \in DOMAIN PPE_WEIGHTS THEN PPE_WEIGHTS[c] ELSE 0

\* Python's None for matched_id / best_person
None == 0

Max2(a, b) == IF a >= b THEN a ELSE b
Min2(a, b) == IF a <= b THEN a ELSE b

SeqsUpTo(S, n) == UNION {[1..k -> S] : k \in 0..n}

(* ------------------------------ tracker -------------------------------- *)
\* cx, cy of a box, doubled
Center(box) == <<box[1] + box[3], box[2] + box[4]>>

\* (2*distance)^2 between two doubled centres
Dist2(c, p) == (c[1] - p[1]) * (c[1] - p[1]) + (c[2] - p[2]) * (c[2] - p[2])

\* distance < 50
WithinThreshold(d2) == d2 < 4 * MATCH_DISTANCE * MATCH_DISTANCE

\* variant of MatchLoop: the first track within the threshold wins
RECURSIVE MatchLoopFirst(_, _, _, _)
MatchLoopFirst(table, k, c, m) ==
    IF k > Len(table) THEN m
    ELSE LET d == Dist2(c, table[k].center)
         IN  IF WithinThreshold(d) /\ m[1] = None
             THEN MatchLoopFirst(table, k + 1, c, <<table[k].pid, d>>)
             ELSE MatchLoopFirst(table, k + 1, c, m)

\* the for-loop over self.tracked_persons.items(): m is <<matched_id, min_distance>>
RECURSIVE MatchLoop(_, _, _, _)
MatchLoop(table, k, c, m) ==
    IF k > Len(table) THEN m
    ELSE LET d == Dist2(c, table[k].center)
         IN  IF WithinThreshold(d) /\ (m[1] = None \/ d < m[2])
             THEN MatchLoop(table, k + 1, c, <<table[k].pid, d>>)
             ELSE MatchLoop(table, k + 1, c, m)

MatchedId(table, c) == MatchLoop(table, 1, c, <<None, 0>>)[1]

HasKey(table, pid) == \E k \in 1..Len(table) : table[k].pid = pid

\* self.tracked_persons[pid] = {'center': c, 'timestamp': t}
DictSet(table, pid, c, t) ==
    LET e == [pid |-> pid, center |-> c, timestamp |-> t]
    IN  IF HasKey(table, pid)
        THEN [k \in 1..Len(table) |-> IF table[k].pid = pid THEN e ELSE table[k]]
        ELSE Append(table, e)

\* self.id_counter += 1
NextId(counter) == counter + 1

\* variant of TrackOne: a new id is the number of live tracks plus one
TrackOneCountLive(st, person, t) ==
    LET c == Center(person.box)
        matched_id == MatchedId(st.tracked_persons, c)
        pid == IF matched_id # None THEN matched_id ELSE Len(st.tracked_persons) + 1
    IN  [id_counter |-> IF matched_id # None THEN st.id_counter ELSE pid,
         tracked_persons |-> DictSet(st.tracked_persons, pid, c, t),
         updated_persons |-> Append(st.updated_persons,
                                    [class |-> person.class, box |-> person.box,
                                     ref |-> person.ref, id |-> pid])]

\* the body of the loop over current_persons, for one person
TrackOne(st, person, t) ==
    LET c == Center(person.box)
        matched_id == MatchedId(st.tracked_persons, c)
        pid == IF matched_id # None THEN matched_id ELSE NextId(st.id_counter)
    IN  [id_counter |-> IF matched_id # None THEN st.id_counter ELSE pid,
         tracked_persons |-> DictSet(st.tracked_persons, pid, c, t),
         updated_persons |-> Append(st.updated_persons,
                                    [class |-> person.class, box |-> person.box,
                                     ref |-> person.ref, id |-> pid])]

RECURSIVE TrackLoop(_, _, _, _)
TrackLoop(st, current_persons, i, t) ==
    IF i > Len(current_persons) THEN st
    ELSE TrackLoop(TrackOne(st, current_persons[i], t), current_persons, i + 1, t)

\* the dict comprehension that drops old tracks
Fresh(e, current_time) == current_time - e.timestamp < TRACK_TIMEOUT

PurgeStale(table, current_time) ==
    LET keep(e) == Fresh(e, current_time) IN SelectSeq(table, keep)

\* track_persons, called at time t on the tracker state (counter, table)
track_persons(counter, table, current_persons, t) ==
    LET st == TrackLoop([id_counter |-> counter, tracked_persons |-> table,
                         updated_persons |-> <<>>], current_persons, 1, t)
    IN  [id_counter |-> st.id_counter,
         tracked_persons |-> PurgeStale(st.tracked_persons, t),
         updated_persons |-> st.updated_persons]

Keys(table) == {table[k].pid : k \in 1..Len(table)}
Ids(persons) == {persons[i].id : i \in 1..Len(persons)}

(* ------------------------------ geometry ------------------------------- *)
NoExc == "none"
ZeroDivisionError == "ZeroDivisionError"

\* calculate_iou: 0.0 on a degenerate overlap, else intersection / union
calculate_iou(box1, box2) ==
    LET x1 == Max2(box1[1], box2[1])
        y1 == Max2(box1[2], box2[2])
        x2 == Min2(box1[3], box2[3])
        y2 == Min2(box1[4], box2[4])
        intersection == (x2 - x1) * (y2 - y1)
        area1 == (box1[3] - box1[1]) * (box1[4] - box1[2])
        area2 == (box2[3] - box2[1]) * (box2[4] - box2[2])
        union == area1 + area2 - intersection
    \* the fraction is kept with a positive denominator
    IN  IF x2 < x1 \/ y2 < y1 THEN [exc |-> NoExc, num |-> 0, den |-> 1]
        ELSE IF union = 0 THEN [exc |-> ZeroDivisionError, num |-> 0, den |-> 1]
        ELSE IF union < 0 THEN [exc |-> NoExc, num |-> 0 - intersection, den |-> 0 - union]
        ELSE [exc |-> NoExc, num |-> intersection, den |-> union]

\* a > b on two fractions with positive denominators
FracGt(a, b) == a.num * b.den > b.num * a.den

\* a >= IOU_THRESHOLD
FracGeThreshold(a) == a.num >= IOU_THRESHOLD * a.den

(* ------------------------------ assigner ------------------------------- *)
\* the sort key: (x2-x1)*(y2-y1) of the item's box
Area(d) == (d.box[3] - d.box[1]) * (d.box[4] - d.box[2])

\* place x behind every element whose key is at least its own (stable, descending)
InsertByArea(s, x) ==
    LET before == {k \in 1..Len(s) : Area(s[k]) < Area(x)}
        pos == IF before = {} THEN Len(s) + 1
               ELSE CHOOSE k \in before : \A j \in before : k <= j
    IN  SubSeq(s, 1, pos - 1) \o <<x>> \o SubSeq(s, pos, Len(s))

\* sorted(ppe_items, key=area, reverse=True)
RECURSIVE SortLoop(_, _, _)
SortLoop(ppe_items, k, acc) ==
    IF k > Len(ppe_items) THEN acc
    ELSE SortLoop(ppe_items, k + 1, InsertByArea(acc, ppe_items[k]))

ppe_items_sorted(ppe_items) == SortLoop(ppe_items, 1, <<>>)

\* variant of BestLoop: current_iou >= best_iou in place of >
RECURSIVE BestLoopGe(_, _, _, _)
BestLoopGe(persons, ppe, i, b) ==
    IF i > Len(persons) THEN b
    ELSE LET current_iou == calculate_iou(persons[i].box, ppe.box)
         IN  IF ~FracGt(b[2], current_iou) /\ FracGeThreshold(current_iou)
             THEN BestLoopGe(persons, ppe, i + 1, <<i, current_iou>>)
             ELSE BestLoopGe(persons, ppe, i + 1, b)

\* the inner loop over persons: b is <<index of best_person, best_iou>>
RECURSIVE BestLoop(_, _, _, _)
BestLoop(persons, ppe, i, b) ==
    IF i > Len(persons) THEN b
    ELSE LET current_iou == calculate_iou(persons[i].box, ppe.box)
         IN  IF FracGt(current_iou, b[2]) /\ FracGeThreshold(current_iou)
             THEN BestLoop(persons, ppe, i + 1, <<i, current_iou>>)
             ELSE BestLoop(persons, ppe, i + 1, b)

\* index in persons of best_person for one item, None when there is none
BestPerson(persons, ppe) ==
    BestLoop(persons, ppe, 1, <<None, [exc |-> NoExc, num |-> 0, den |-> 1]>>)[1]

\* assigned_ppe[pid].append(ppe) on the defaultdict
DictAppend(assigned, pid, ppe) ==
    [q \in DOMAIN assigned \cup {pid} |->
        IF q = pid
        THEN (IF pid \in DOMAIN assigned THEN Append(assigned[pid], ppe) ELSE <<ppe>>)
        ELSE assigned[q]]

EmptyDict == [q \in {} |-> <<>>]

\* variant of AssignLoop: the item goes to every person it overlaps
RECURSIVE AppendToAll(_, _, _, _)
AppendToAll(persons, ppe, i, assigned) ==
    IF i > Len(persons) THEN assigned
    ELSE AppendToAll(persons, ppe, i + 1,
                     IF calculate_iou(persons[i].box, ppe.box).num > 0
                     THEN DictAppend(assigned, persons[i].id, ppe)
                     ELSE assigned)

RECURSIVE AssignLoopAll(_, _, _, _)
AssignLoopAll(persons, sorted, k, assigned) ==
    IF k > Len(sorted) THEN assigned
    ELSE AssignLoopAll(persons, sorted, k + 1,
                       AppendToAll(persons, sorted[k], 1, assigned))

\* the loop over ppe_items_sorted
RECURSIVE AssignLoop(_, _, _, _)
AssignLoop(persons, sorted, k, assigned) ==
    IF k > Len(sorted) THEN assigned
    ELSE LET best_person == BestPerson(persons, sorted[k])
         IN  AssignLoop(persons, sorted, k + 1,
                        IF best_person # None
                        THEN DictAppend(assigned, persons[best_person].id, sorted[k])
                        ELSE assigned)

\* some call of calculate_iou made by the loops raises
AssignRaises(persons, ppe_items) ==
    \E i \in 1..Len(persons), k \in 1..Len(ppe_items) :
        calculate_iou(persons[i].box, ppe_items[k].box).exc # NoExc

assign_ppe_to_persons(persons, ppe_items) ==
    IF AssignRaises(persons, ppe_items)
    THEN [exc |-> ZeroDivisionError, assigned_ppe |-> EmptyDict]
    ELSE [exc |-> NoExc,
          assigned_ppe |-> AssignLoop(persons, ppe_items_sorted(ppe_items), 1, EmptyDict)]

(* ------------------------------- scorer -------------------------------- *)
\* score += PPE_WEIGHTS.get(ppe['class'], 0) over assigned_ppe[pid]
RECURSIVE RawScore(_, _)
RawScore(items, k) ==
    IF k > Len(items) THEN 0
    ELSE WeightOf(items[k].class) + RawScore(items, k + 1)

\* variant of Clamp: the cap is missing
ClampNoCap(score) == Max2(0, score)

\* max(0, min(100, score))
Clamp(score) == Max2(0, Min2(SCORE_CAP, score))

ScoreOf(pid, assigned_ppe) ==
    Clamp(IF pid \in DOMAIN assigned_ppe THEN RawScore(assigned_ppe[pid], 1) ELSE 0)

calculate_ppe_scores(persons, assigned_ppe) ==
    [pid \in Ids(persons) |-> ScoreOf(pid, assigned_ppe)]

(* ---------------------------- process_frame ---------------------------- *)
IsPerson(d) == d.class = "Person"
IsPPE(d) == d.class \in DOMAIN PPE_WEIGHTS

EmptyScores == [q \in {} |-> 0]

\* variant of process_frame: the assignment is never reset between frames
process_frameKeep(counter, table, detections, t) ==
    LET persons == SelectSeq(detections, IsPerson)
        ppe_items == SelectSeq(detections, IsPPE)
        tr == track_persons(counter, table, persons, t)
        kept == AssignLoop(tr.updated_persons, ppe_items_sorted(ppe_items), 1,
                           last.assigned_ppe)
    IN  [id_counter |-> tr.id_counter,
         tracked_persons |-> tr.tracked_persons,
         result |-> [op |-> "process_frame", exc |-> NoExc,
                     persons |-> tr.updated_persons, ppe_items |-> ppe_items,
                     assigned_ppe |-> kept,
                     scores |-> calculate_ppe_scores(tr.updated_persons, kept)]]

\* process_frame from the detections on: the tracker is updated first, then
\* the assignment and the scores are built; an exception of the assigner
\* leaves the tracker updated and is re-raised
process_frame(counter, table, detections, t) ==
    LET persons == SelectSeq(detections, IsPerson)
        ppe_items == SelectSeq(detections, IsPPE)
        tr == track_persons(counter, table, persons, t)
        as == assign_ppe_to_persons(tr.updated_persons, ppe_items)
    IN  [id_counter |-> tr.id_counter,
         tracked_persons |-> tr.tracked_persons,
         result |-> IF as.exc # NoExc
                    THEN [op |-> "process_frame", exc |-> as.exc, persons |-> <<>>,
                          ppe_items |-> <<>>, assigned_ppe |-> EmptyDict,
                          scores |-> EmptyScores]
                    ELSE [op |-> "process_frame", exc |-> NoExc,
                          persons |-> tr.updated_persons, ppe_items |-> ppe_items,
                          assigned_ppe |-> as.assigned_ppe,
                          scores |-> calculate_ppe_scores(tr.updated_persons,
                                                          as.assigned_ppe)]]

(* ------------------------------- inputs -------------------------------- *)
\* person boxes with centroids (100,100), (149,100), (150,100), (151,100)
TrackBoxes == {<<80, 60, 120, 140>>, <<129, 60, 169, 140>>,
               <<130, 60, 170, 140>>, <<131, 60, 171, 140>>}

\* seconds between two frames: none, the timeout, more than the timeout
Gaps == {0, 2, 3}

\* lists of at most n detections over a set of <<class, box>> kinds; ref is the
\* position in the frame's detection list, base being the detections before
Detections(kinds, n, base) ==
    UNION {{[i \in 1..k |-> [class |-> f[i][1], box |-> f[i][2], ref |-> base + i]] :
              f \in [1..k -> kinds]} : k \in 0..n}

TrackInputs == Detections({"Person"} \X TrackBoxes, MaxPersons, 0)

\* one person at centroid (100,100), then (110,105), a neighbour at (140,100)
FramePersons == {<<"Person", <<80, 60, 120, 140>>>>, <<"Person", <<90, 65, 130, 145>>>>,
                 <<"Person", <<120, 60, 160, 140>>>>}

\* a hardhat on the first person, and a detection of a class without weight
FrameItems == {<<"Hardhat", <<100, 65, 120, 85>>>>,
               <<"NO-Hardhat", <<100, 65, 120, 85>>>>}

\* the detector's output for one frame: persons and other detections (their
\* interleaving does not matter, process_frame filters each class in order)
FrameInputs ==
    UNION {{p \o q : q \in Detections(FrameItems, MaxItems, Len(p))} :
              p \in Detections(FramePersons, MaxPersons, 0)}

\* frames of a stream that shows one subject, at (100,100) or (110,105), with
\* or without a hardhat
StreamInputs ==
    UNION {{p \o q : q \in Detections({<<"Hardhat", <<100, 65, 120, 85>>>>},
                                      MaxItems, Len(p))} :
              p \in Detections({<<"Person", <<80, 60, 120, 140>>>>,
                                <<"Person", <<90, 65, 130, 145>>>>}, MaxPersons, 0)}

NoCall == [op |-> "none"]
NoFrame == [op |-> "none", exc |-> NoExc, persons |-> <<>>, ppe_items |-> <<>>,
            assigned_ppe |-> EmptyDict, scores |-> EmptyScores]

(* ------------------------------- states -------------------------------- *)
\* PPEDetector.__init__
Init ==
    /\ id_counter = 0
    /\ tracked_persons = <<>>
    /\ now = 0
    /\ last = NoFrame
    /\ prev = NoFrame
    /\ call = NoCall

\* one call of track_persons, gap seconds after the previous one
TrackPersons(current_persons, gap) ==
    /\ now + gap <= MaxTime
    /\ \E r \in {track_persons(id_counter, tracked_persons, current_persons, now + gap)} :
           /\ r.id_counter <= MaxId
           /\ id_counter' = r.id_counter
           /\ tracked_persons' = r.tracked_persons
           /\ last' = [NoFrame EXCEPT !.op = "track_persons",
                                      !.persons = r.updated_persons]
    /\ now' = now + gap
    /\ UNCHANGED <<prev, call>>

Next ==
    \E current_persons \in TrackInputs, gap \in Gaps :
        TrackPersons(current_persons, gap)

Spec == Init /\ [][Next]_vars

\* one call of process_frame, gap seconds after the previous one
ProcessFrame(detections, gap) ==
    /\ now + gap <= MaxTime
    /\ \E r \in {process_frame(id_counter, tracked_persons, detections, now + gap)} :
           /\ r.id_counter <= MaxId
           /\ id_counter' = r.id_counter
           /\ tracked_persons' = r.tracked_persons
           /\ last' = r.result
    /\ now' = now + gap
    /\ UNCHANGED call

NextFrame ==
    \E detections \in FrameInputs, gap \in Gaps :
        ProcessFrame(detections, gap) /\ UNCHANGED prev

SpecFrame == Init /\ [][NextFrame]_vars

\* the same calls, the result of the frame before kept in prev
NextStream ==
    \E detections \in StreamInputs, gap \in Gaps :
        ProcessFrame(detections, gap) /\ prev' = last

SpecStream == Init /\ [][NextStream]_vars

(* ----------------------------- direct calls ---------------------------- *)
\* every 4-tuple over 0..MaxCoord: well-formed, zero-area and malformed boxes
IouBoxes == (0..MaxCoord) \X (0..MaxCoord) \X (0..MaxCoord) \X (0..MaxCoord)

InitIou ==
    /\ id_counter = 0 /\ tracked_persons = <<>> /\ now = 0
    /\ last = NoFrame /\ prev = NoFrame
    /\ call \in {[op |-> "calculate_iou", done |-> FALSE, box1 |-> b1, box2 |-> b2,
                  result |-> [exc |-> NoExc, num |-> 0, den |-> 1]] :
                    b1 \in IouBoxes, b2 \in IouBoxes}

CallIou ==
    /\ call.op = "calculate_iou" /\ ~call.done
    /\ call' = [call EXCEPT !.done = TRUE,
                            !.result = calculate_iou(call.box1, call.box2)]
    /\ UNCHANGED <<id_counter, tracked_persons, now, last, prev>>

SpecIou == InitIou /\ [][CallIou]_vars

\* two persons side by side and a zero-area person box, each under id 1 or 2
AssignPersons == {[class |-> "Person", box |-> b, ref |-> 0, id |-> n] :
                    b \in {<<0, 0, 2, 4>>, <<2, 0, 4, 4>>, <<1, 1, 1, 1>>},
                    n \in {1, 2}}

\* a hardhat inside the first person, a vest across both, a mask that overlaps
\* nobody, a zero-area mask
AssignItems == {<<"Hardhat", <<0, 0, 1, 1>>>>, <<"Safety Vest", <<1, 1, 3, 3>>>>,
                <<"Mask", <<5, 5, 6, 6>>>>, <<"Mask", <<1, 1, 1, 1>>>>}

InitAssign ==
    /\ id_counter = 0 /\ tracked_persons = <<>> /\ now = 0
    /\ last = NoFrame /\ prev = NoFrame
    /\ call \in {[op |-> "assign_ppe_to_persons", done |-> FALSE,
                  persons |-> [i \in DOMAIN p |-> [p[i] EXCEPT !.ref = i]],
                  ppe_items |-> q,
                  result |-> [exc |-> NoExc, assigned_ppe |-> EmptyDict]] :
                    p \in SeqsUpTo(AssignPersons, MaxPersons),
                    q \in Detections(AssignItems, MaxCallItems, 0)}

CallAssign ==
    /\ call.op = "assign_ppe_to_persons" /\ ~call.done
    /\ call' = [call EXCEPT !.done = TRUE,
                            !.result = assign_ppe_to_persons(call.persons,
                                                             call.ppe_items)]
    /\ UNCHANGED <<id_counter, tracked_persons, now, last, prev>>

SpecAssign == InitAssign /\ [][CallAssign]_vars

\* lists of items of two weighted classes and one class without weight
ScoreLists == Detections({"Hardhat", "Mask", "Gloves"} \X {<<0, 0, 1, 1>>}, MaxList, 0)

\* assignments: each of the ids 1 and 2 is a key or is missing
ScoreDicts == UNION {[D -> ScoreLists \ {<<>>}] : D \in SUBSET {1, 2}}

InitScore ==
    /\ id_counter = 0 /\ tracked_persons = <<>> /\ now = 0
    /\ last = NoFrame /\ prev = NoFrame
    /\ call \in {[op |-> "calculate_ppe_scores", done |-> FALSE,
                  persons |-> [i \in DOMAIN p |->
                                 [class |-> "Person", box |-> <<0, 0, 2, 4>>,
                                  ref |-> i, id |-> p[i]]],
                  assigned_ppe |-> a, result |-> EmptyScores] :
                    p \in SeqsUpTo({1, 2}, MaxPersons), a \in ScoreDicts}

CallScores ==
    /\ call.op = "calculate_ppe_scores" /\ ~call.done
    /\ call' = [call EXCEPT !.done = TRUE,
                            !.result = calculate_ppe_scores(call.persons,
                                                            call.assigned_ppe)]
    /\ UNCHANGED <<id_counter, tracked_persons, now, last, prev>>

SpecScore == InitScore /\ [][CallScores]_vars

(* --------------------------- tracker properties ------------------------ *)
\* C1: within one call of track_persons no two persons of the returned list
\* carry the same id.
C1_UniqueIdsInFrame ==
    last.op = "track_persons" =>
        \A i, j \in 1..Len(last.persons) :
            i # j => last.persons[i].id # last.persons[j].id

\* C2: a track that has not been updated for more than 2.0 seconds is never
\* the id given to a detection of a later frame.
C2_StaleIdNeverReassigned ==
    [][\A i \in 1..Len(last'.persons) : \A k \in 1..Len(tracked_persons) :
          tracked_persons[k].pid = last'.persons[i].id
              => ~(now' - tracked_persons[k].timestamp > TRACK_TIMEOUT)]_vars

\* ids handed out by the step that were not live before it
MintedInStep == Ids(last'.persons) \ Keys(tracked_persons)

\* C3: id_counter never decreases; the ids minted by a call are exactly the
\* counter values id_counter+1 .. id_counter', so each is positive and greater
\* than every id issued before (live or purged); live ids never exceed the
\* counter.
C3_IdsMonotonic ==
    [][/\ id_counter' >= id_counter
       /\ MintedInStep = (id_counter + 1)..id_counter'
       /\ \A pid \in Ids(last'.persons) : pid >= 1
       /\ Keys(tracked_persons') \subseteq 1..id_counter'
       /\ Keys(tracked_persons') \subseteq Keys(tracked_persons) \cup MintedInStep]_vars

\* an id has been purged and a later id is the one the last frame carries
C3_Witness ==
    /\ id_counter >= 2
    /\ 1 \notin Keys(tracked_persons)
    /\ Len(last.persons) = 1
    /\ last.persons[1].id = id_counter
    /\ Keys(tracked_persons) = {id_counter}

\* the tracks person i of the step's frame is compared with: those live before
\* the call and those given to the persons before it
KeysBefore(i) == Keys(tracked_persons) \cup {last'.persons[j].id : j \in 1..(i - 1)}

\* the (doubled) centroid track pid has when person i is matched
CenterBefore(i, pid) ==
    IF \E j \in 1..(i - 1) : last'.persons[j].id = pid
    THEN LET j == CHOOSE j \in 1..(i - 1) :
                    /\ last'.persons[j].id = pid
                    /\ \A h \in (j + 1)..(i - 1) : last'.persons[h].id # pid
         IN  Center(last'.persons[j].box)
    ELSE LET k == CHOOSE k \in 1..Len(tracked_persons) : tracked_persons[k].pid = pid
         IN  tracked_persons[k].center

\* the squared (doubled) distances of person i to the tracks closer than 50 px
NearBefore(i) ==
    {e \in {<<pid, Dist2(Center(last'.persons[i].box), CenterBefore(i, pid))>> :
                pid \in KeysBefore(i)} : e[2] < 4 * 50 * 50}

\* C6: every person gets the id of a track at the smallest centroid distance
\* among the tracks closer than 50 px, and a new id only when there is none;
\* with one live track updated by the previous frame, a move of at most 49 px
\* keeps the id and a jump of at least 51 px gives a new one.
C6_NearestNeighbour ==
    [][/\ \A i \in 1..Len(last'.persons) :
            \E near \in {NearBefore(i)} :
                IF near # {}
                THEN \E e \in near :
                        /\ e[1] = last'.persons[i].id
                        /\ \A f \in near : e[2] <= f[2]
                ELSE last'.persons[i].id \notin KeysBefore(i)
       /\ (/\ Len(tracked_persons) = 1
           /\ tracked_persons[1].timestamp = now
           /\ Len(last'.persons) = 1)
          => LET d == Dist2(Center(last'.persons[1].box), tracked_persons[1].center)
             IN  /\ d <= 4 * 49 * 49 => last'.persons[1].id = tracked_persons[1].pid
                 /\ d >= 4 * 51 * 51 => last'.persons[1].id = id_counter + 1]_vars

\* two live tracks, and the last frame's person took the later one although
\* the earlier one is within 50 px of it too
C6_Witness ==
    /\ Len(tracked_persons) = 2
    /\ Len(last.persons) = 1
    /\ last.persons[1].id = tracked_persons[2].pid
    /\ tracked_persons[2].pid # tracked_persons[1].pid
    /\ WithinThreshold(Dist2(Center(last.persons[1].box), tracked_persons[1].center))

(* ---------------------------- frame properties ------------------------- *)
\* the items of sequence items whose best-IoU person is person i of persons
OwnItems(persons, items, i) ==
    LET mine(d) == BestPerson(persons, d) = i IN SelectSeq(items, mine)

\* C10: the score reported for a person detection is the clamped weight of the
\* items whose best-IoU person is that detection, and of no others.
C10_ScoreCountsOwnItems ==
    (last.op = "process_frame" /\ last.exc = NoExc) =>
        \A i \in 1..Len(last.persons) :
            last.scores[last.persons[i].id]
                = Clamp(RawScore(OwnItems(last.persons, last.ppe_items, i), 1))

\* frame 1 of the end-to-end case: P alone at centroid (100,100)
IsFrameOne(f) ==
    /\ f.op = "process_frame"
    /\ Len(f.persons) = 1
    /\ Center(f.persons[1].box) = <<200, 200>>
    /\ f.ppe_items = <<>>

\* frame 2: P at centroid (110,105) with one overlapping Hardhat
IsFrameTwo(f) ==
    /\ f.op = "process_frame"
    /\ Len(f.persons) = 1
    /\ Center(f.persons[1].box) = <<220, 210>>
    /\ Len(f.ppe_items) = 1
    /\ f.ppe_items[1].class = "Hardhat"
    /\ calculate_iou(f.persons[1].box, f.ppe_items[1].box).num > 0

\* C9: a frame's assignment holds only detections of that frame, attached to
\* persons of that frame, and a frame without equipment scores 0 whatever the
\* frame before held; in the two-frame case P keeps its id, the Hardhat is
\* attached in frame 2 only, and the score goes from 0 to 40.
C9_OnlyIdentityPersists ==
    /\ last.op = "process_frame" =>
        /\ DOMAIN last.assigned_ppe \subseteq Ids(last.persons)
        /\ \A pid \in DOMAIN last.assigned_ppe :
             \A k \in 1..Len(last.assigned_ppe[pid]) :
               \E n \in 1..Len(last.ppe_items) :
                  last.ppe_items[n] = last.assigned_ppe[pid][k]
        /\ last.ppe_items = <<>> => \A pid \in DOMAIN last.scores : last.scores[pid] = 0
    /\ (IsFrameOne(prev) /\ IsFrameTwo(last)) =>
        LET pid == prev.persons[1].id
        IN  /\ last.persons[1].id = pid
            /\ prev.assigned_ppe = EmptyDict
            /\ prev.scores = (pid :> 0)
            /\ last.assigned_ppe = (pid :> <<last.ppe_items[1]>>)
            /\ last.scores = (pid :> 40)

\* the two frames of the end-to-end case have been processed, in this order
C9_Witness ==
    /\ IsFrameOne(prev)
    /\ IsFrameTwo(last)
    /\ last.scores[last.persons[1].id] = 40

(* ------------------------- direct-call properties ---------------------- *)
\* C5: calculate_iou never raises, returns a value in [0,1], and returns 1.0
\* for a box compared with itself.
C5_IouTotalAndBounded ==
    (call.op = "calculate_iou" /\ call.done) =>
        /\ call.result.exc = NoExc
        /\ 0 <= call.result.num
        /\ call.result.num <= call.result.den
        /\ call.box1 = call.box2 => call.result.num = call.result.den

AssignReturned ==
    call.op = "assign_ppe_to_persons" /\ call.done /\ call.result.exc = NoExc

\* the <<person id, position>> places of the mapping that hold the detection ref
PlacesOf(assigned, ref) ==
    {e \in UNION {{<<pid, n>> : n \in 1..Len(assigned[pid])} : pid \in DOMAIN assigned} :
        assigned[e[1]][e[2]].ref = ref}

IouNum(person, ppe) == calculate_iou(person.box, ppe.box).num
IouDen(person, ppe) == calculate_iou(person.box, ppe.box).den

\* C4 as claimed: with IOU_THRESHOLD 0 every item is attributed to some person
\* as soon as there is a person.
C4_EveryItemAssigned ==
    (AssignReturned /\ call.persons # <<>>) =>
        \A k \in 1..Len(call.ppe_items) :
            PlacesOf(call.result.assigned_ppe, call.ppe_items[k].ref) # {}

ZeroArea(box) == (box[3] - box[1]) * (box[4] - box[2]) = 0
Touch(b1, b2) ==
    /\ Max2(b1[1], b2[1]) <= Min2(b1[3], b2[3])
    /\ Max2(b1[2], b2[2]) <= Min2(b1[4], b2[4])

\* C4 amended: an item is attributed exactly when its IoU with some person is
\* greater than 0, and then under the id of the first person with the greatest
\* IoU; an item whose IoU with every person is 0 stays unassigned; the call
\* raises exactly when a person box and an item box, both of zero area, touch.
C4_AssignedIffPositiveIou ==
    (call.op = "assign_ppe_to_persons" /\ call.done) =>
        /\ call.result.exc # NoExc <=>
             \E i \in 1..Len(call.persons), k \in 1..Len(call.ppe_items) :
                /\ ZeroArea(call.persons[i].box) /\ ZeroArea(call.ppe_items[k].box)
                /\ Touch(call.persons[i].box, call.ppe_items[k].box)
        /\ call.result.exc = NoExc =>
             \A k \in 1..Len(call.ppe_items) :
                LET d == call.ppe_items[k]
                    pos == {i \in 1..Len(call.persons) : IouNum(call.persons[i], d) > 0}
                    places == PlacesOf(call.result.assigned_ppe, d.ref)
                IN  IF pos = {} THEN places = {}
                    ELSE \E i \in pos :
                           /\ \A j \in pos :
                                IouNum(call.persons[i], d) * IouDen(call.persons[j], d)
                                  >= IouNum(call.persons[j], d) * IouDen(call.persons[i], d)
                           /\ \A j \in 1..(i - 1) :
                                IouNum(call.persons[i], d) * IouDen(call.persons[j], d)
                                  > IouNum(call.persons[j], d) * IouDen(call.persons[i], d)
                           /\ \A e \in places : e[1] = call.persons[i].id
                           /\ places # {}

\* a call with persons that attributes one item and leaves another, of IoU 0
\* with every person, unassigned
C4_Witness ==
    /\ AssignReturned
    /\ call.persons # <<>>
    /\ \E k, m \in 1..Len(call.ppe_items) :
          /\ PlacesOf(call.result.assigned_ppe, call.ppe_items[k].ref) # {}
          /\ PlacesOf(call.result.assigned_ppe, call.ppe_items[m].ref) = {}
          /\ \A i \in 1..Len(call.persons) :
                IouNum(call.persons[i], call.ppe_items[m]) = 0

\* C7: every equipment detection is held at most once by the returned mapping,
\* and the mapping holds nothing but detections of ppe_items.
C7_ItemAssignedAtMostOnce ==
    AssignReturned =>
        /\ \A k \in 1..Len(call.ppe_items) :
              Cardinality(PlacesOf(call.result.assigned_ppe, call.ppe_items[k].ref)) <= 1
        /\ \A pid \in DOMAIN call.result.assigned_ppe :
              /\ call.result.assigned_ppe[pid] # <<>>
              /\ \A n \in 1..Len(call.result.assigned_ppe[pid]) :
                    \E k \in 1..Len(call.ppe_items) :
                        call.ppe_items[k] = call.result.assigned_ppe[pid][n]

\* two persons under different ids both overlap an item, and one person
\* receives two items
C7_Witness ==
    /\ AssignReturned
    /\ \E k \in 1..Len(call.ppe_items), i, j \in 1..Len(call.persons) :
          /\ call.persons[i].id # call.persons[j].id
          /\ IouNum(call.persons[i], call.ppe_items[k]) > 0
          /\ IouNum(call.persons[j], call.ppe_items[k]) > 0
    /\ \E pid \in DOMAIN call.result.assigned_ppe :
          Len(call.result.assigned_ppe[pid]) >= 2

CountClass(items, c) == Cardinality({n \in 1..Len(items) : items[n].class = c})

\* the configured weights, class by class
WeightedSum(items) ==
    40 * CountClass(items, "Hardhat") + 40 * CountClass(items, "Safety Vest")
      + 20 * CountClass(items, "Mask")

\* C8: the scores cover exactly the ids of the persons, and each is the sum of
\* the weights of the person's items (unknown classes and a missing key count
\* 0) cut to the range 0..100.
C8_ScoreIsClampedSum ==
    (call.op = "calculate_ppe_scores" /\ call.done) =>
        /\ DOMAIN call.result = Ids(call.persons)
        /\ \A i \in 1..Len(call.persons) :
              LET pid == call.persons[i].id
                  raw == IF pid \in DOMAIN call.assigned_ppe
                         THEN WeightedSum(call.assigned_ppe[pid]) ELSE 0
              IN  /\ call.result[pid] = (IF raw > 100 THEN 100 ELSE raw)
                  /\ call.result[pid] \in 0..100

\* three 40-weight items give 100, next to a person whose key is missing
C8_Witness ==
    /\ call.op = "calculate_ppe_scores" /\ call.done
    /\ \E pid \in DOMAIN call.result :
          /\ pid \in DOMAIN call.assigned_ppe
          /\ CountClass(call.assigned_ppe[pid], "Hardhat") = 3
          /\ call.result[pid] = 100
    /\ \E pid \in DOMAIN call.result :
          pid \notin DOMAIN call.assigned_ppe /\ call.result[pid] = 0

====
